---- MODULE Spec2Model ----
(***************************************************************************)
(* Model of the one-dimensional cellular automaton engine in               *)
(* src/src/ca/ca.py (class CA): construction from a Wolfram number or an   *)
(* explicit rule list, one application of the rule (_apply_rule), the      *)
(* multi-step driver (__call__) and the output padding (_pad_output).      *)
(*                                                                         *)
(* Python lists are objects: the model keeps a heap (a sequence of list    *)
(* contents, a reference being an index into it) so that copying,          *)
(* aliasing and in-place growth are distinguishable.                       *)
(***************************************************************************)
EXTENDS Integers, Sequences, FiniteSets, TLC

\* ------------------------------------------------------------------ bounds
\* largest neighbourhood radius a caller supplies (radii range over -1..MaxRadius)
MaxRadius == 2
\* largest number of states a caller supplies (n_states ranges over 1..MaxStates)
MaxStates == 3
\* only configurations whose largest Wolfram number is at most this are built
MaxRuleNum == 65535
\* longest initial sequence a caller supplies
MaxLen == 3
\* largest number of steps a caller asks for (steps range over 0..MaxSteps)
MaxSteps == 2
\* longest sequence in a history handed directly to the padding routine
MaxPadLen == 6

\* ------------------------------------------------------------ error kinds
\* every failure is a ValueError in the source; the kinds name the raise sites
InvalidConfiguration == "InvalidConfiguration"
RuleNumberOutOfRange == "RuleNumberOutOfRange"
RuleTableLengthMismatch == "RuleTableLengthMismatch"
StateOutOfRange == "StateOutOfRange"
SequenceTooShort == "SequenceTooShort"
InvalidStepCount == "InvalidStepCount"
\* list subscript outside the list (raised by the interpreter, not by the class)
IndexError == "IndexError"
Ok == "ok"

\* --------------------------------------------------------------- helpers
\* Python's ** on non-negative integers
RECURSIVE Pow(_, _)
Pow(b, e) == IF e <= 0 THEN 1 ELSE b * Pow(b, e - 1)

\* min(acc * b ** e, cap + 1), computed without leaving the machine integers
RECURSIVE SatPow(_, _, _, _)
SatPow(b, e, cap, acc) ==
    IF e <= 0 THEN acc
    ELSE IF acc * b > cap THEN cap + 1
    ELSE SatPow(b, e - 1, cap, acc * b)

\* [0 for _ in range(k)]
Zeros(k) == [i \in 1..k |-> 0]

\* all(map(lambda x: 0 <= x < n_states, xs))
InRange(xs, n_states) == \A i \in 1..Len(xs) : 0 <= xs[i] /\ xs[i] < n_states

\* sum of a sequence of integers
RECURSIVE Sum(_)
Sum(xs) == IF Len(xs) = 0 THEN 0 ELSE xs[1] + Sum(Tail(xs))

\* max / min of a non-empty sequence of integers
MaxOf(xs) == CHOOSE m \in {xs[i] : i \in 1..Len(xs)} : \A i \in 1..Len(xs) : xs[i] <= m
MinOf(xs) == CHOOSE m \in {xs[i] : i \in 1..Len(xs)} : \A i \in 1..Len(xs) : m <= xs[i]

\* ---------------------------------------------------------------- heap
\* a new list object holding v; its reference is Len(h) + 1
Alloc(h, v) == Append(h, v)
\* the contents of the list objects a list of references points to
Deref(h, refs) == [i \in 1..Len(refs) |-> h[refs[i]]]

\* ------------------------------------------------------------ the engine
\* no engine has been constructed
NoCA == [nhd |-> <<0, 0>>, n_states |-> 0, in_size |-> 0, rule |-> <<>>, max_rule_ix |-> 0]

\* the rule argument of the constructor: an int or a list
IntRule(k) == [kind |-> "int", num |-> k, tab |-> <<>>]
ListRule(t) == [kind |-> "list", num |-> 0, tab |-> t]

\* CA._states_in_bounds: TRUE when it returns, FALSE when it raises
states_in_bounds(n_states, states) ==
    \A i \in 1..Len(states) : ~(states[i] < 0 \/ states[i] >= n_states)

\* CA._int_to_states, inner recursion: digits of k, least significant first
RECURSIVE int_to_states_rcrs(_, _, _)
int_to_states_rcrs(k, n_states, acc) ==
    IF k = 0 THEN acc
    ELSE int_to_states_rcrs(k \div n_states, n_states, Append(acc, k % n_states))

\* the zero fill put in front of the digits instead of behind them
int_to_states_fill_front(n_states, in_size, k) ==
    LET out == int_to_states_rcrs(k, n_states, <<>>)
        rem == Pow(n_states, in_size) - Len(out)
    IN  IF rem > 0 THEN Zeros(rem) \o out ELSE out

\* CA._int_to_states: the digits, zero-filled up to n_states ** in_size
int_to_states(n_states, in_size, k) ==
    LET out == int_to_states_rcrs(k, n_states, <<>>)
        rem == Pow(n_states, in_size) - Len(out)
    IN  IF rem > 0 THEN out \o Zeros(rem) ELSE out

\* the exponent taken one too large
neighborhood_to_index_shifted(n_states, states) ==
    Sum([p \in 1..Len(states) |-> states[p] * Pow(n_states, Len(states) - (p - 1))])

\* CA._neighborhood_to_index: the window read as a base-n_states numeral,
\* leftmost cell most significant
neighborhood_to_index(n_states, states) ==
    Sum([p \in 1..Len(states) |-> states[p] * Pow(n_states, Len(states) - (p - 1) - 1)])

\* the largest rule number rejected
rule_number_out_of_range_strict(num, max_rule_num) == num < 0 \/ num >= max_rule_num

\* CA.__init__, the test on a Wolfram number
rule_number_out_of_range(num, max_rule_num) == num < 0 \/ num > max_rule_num

\* CA.__init__: the error raised, or the attributes of the new object
new(rule, nhd, n_states) ==
    IF nhd[1] < 0 \/ nhd[2] < 0 THEN [err |-> InvalidConfiguration, ca |-> NoCA]
    ELSE IF n_states < 2 THEN [err |-> InvalidConfiguration, ca |-> NoCA]
    ELSE
      LET in_size == nhd[1] + nhd[2] + 1
          max_rule_num == Pow(n_states, Pow(n_states, in_size)) - 1
          rule_len == Pow(n_states, in_size)
          obj(r) == [nhd |-> nhd, n_states |-> n_states, in_size |-> in_size,
                     rule |-> r, max_rule_ix |-> rule_len]
      IN  IF rule.kind = "int"
          THEN IF rule_number_out_of_range(rule.num, max_rule_num)
               THEN [err |-> RuleNumberOutOfRange, ca |-> NoCA]
               ELSE [err |-> Ok, ca |-> obj(int_to_states(n_states, in_size, rule.num))]
          ELSE IF Len(rule.tab) # rule_len
               THEN [err |-> RuleTableLengthMismatch, ca |-> NoCA]
               ELSE IF ~InRange(rule.tab, n_states)
                    THEN [err |-> StateOutOfRange, ca |-> NoCA]
                    ELSE [err |-> Ok, ca |-> obj(rule.tab)]

\* rule[window_int]: Python subscription, negative subscripts counting from the end
Subscript(rule, ix) ==
    IF 0 <= ix /\ ix < Len(rule) THEN [status |-> Ok, val |-> rule[ix + 1]]
    ELSE IF ix < 0 /\ ix >= -Len(rule) THEN [status |-> Ok, val |-> rule[Len(rule) + ix + 1]]
    ELSE [status |-> IndexError, val |-> 0]

\* deepcopy(seq): a new list object with the same contents
deepcopy(h, ref) == [h |-> Alloc(h, h[ref]), ref |-> Len(h) + 1]

\* the zeros of the right neighbourhood left out
pre_pad_input_left_only(c, h, ref, pre_pad) ==
    IF pre_pad
    THEN [h |-> Alloc(h, Zeros(c.nhd[1]) \o h[ref]), ref |-> Len(h) + 1]
    ELSE [h |-> h, ref |-> ref]

\* the argument list itself grown by the zeros
pre_pad_input_in_place(c, h, ref, pre_pad) ==
    IF pre_pad
    THEN [h |-> [h EXCEPT ![ref] = Zeros(c.nhd[1]) \o h[ref] \o Zeros(c.nhd[2])], ref |-> ref]
    ELSE [h |-> h, ref |-> ref]

\* CA._apply_rule, the extension of the input: seq_ is a new list when
\* pre_pad is set and the argument itself otherwise
pre_pad_input(c, h, ref, pre_pad) ==
    IF pre_pad
    THEN [h |-> Alloc(h, Zeros(c.nhd[1]) \o h[ref] \o Zeros(c.nhd[2])), ref |-> Len(h) + 1]
    ELSE [h |-> h, ref |-> ref]

\* the last window left out
window_starts_short(c, seq_) == 1..(Len(seq_) - c.in_size)

\* CA._apply_rule, the range of the sliding loop: range(len(seq_) - in_size + 1)
window_starts(c, seq_) == 1..(Len(seq_) - c.in_size + 1)

\* the length check left out: a short sequence slides to an empty result
too_short_unchecked(c, seq, pre_pad) == FALSE

\* the length check one too lenient
too_short_lenient(c, seq, pre_pad) == ~pre_pad /\ Len(seq) < c.in_size - 1

\* CA._apply_rule, the first check: TRUE when the length check raises
too_short(c, seq, pre_pad) == ~pre_pad /\ Len(seq) < c.in_size

\* CA._apply_rule, the sliding loop: window starting at s (from 1) of seq_
window_at(c, seq_, s) == SubSeq(seq_, s, s + c.in_size - 1)

\* CA._apply_rule, the sliding loop: window_int of the window starting at s
window_int(c, seq_, s) == neighborhood_to_index(c.n_states, window_at(c, seq_, s))

\* CA._apply_rule, the sliding loop over seq_ with heap h: the returned list
\* is a new one, out, holding rule[window_int] for every window
slide(c, h, seq_, starts) ==
    IF \E s \in starts : ~states_in_bounds(c.n_states, window_at(c, seq_, s))
    THEN [status |-> StateOutOfRange, h |-> h, ref |-> 0, ixs |-> {}]
    ELSE IF \E s \in starts : Subscript(c.rule, window_int(c, seq_, s)).status # Ok
    THEN [status |-> IndexError, h |-> h, ref |-> 0,
          ixs |-> {window_int(c, seq_, s) : s \in starts}]
    ELSE [status |-> Ok,
          h |-> Alloc(h, [s \in starts |-> Subscript(c.rule, window_int(c, seq_, s)).val]),
          ref |-> Len(h) + 1,
          ixs |-> {window_int(c, seq_, s) : s \in starts}]

\* CA._apply_rule after the input has been extended: p is the heap and the
\* reference of seq_
slide_over(c, p) == slide(c, p.h, p.h[p.ref], window_starts(c, p.h[p.ref]))

\* CA._apply_rule: status, heap after the call, reference of the returned
\* list, and the rule subscripts that were computed
apply_rule(c, h, ref, pre_pad) ==
    IF too_short(c, h[ref], pre_pad)
    THEN [status |-> SequenceTooShort, h |-> h, ref |-> 0, ixs |-> {}]
    ELSE IF ~InRange(h[ref], c.n_states)
    THEN [status |-> StateOutOfRange, h |-> h, ref |-> 0, ixs |-> {}]
    ELSE slide_over(c, pre_pad_input(c, h, ref, pre_pad))

\* the odd zero of the remainder left out
l_pad_len_even(c, fill) ==
    LET nhd_reps == fill \div (c.in_size - 1)
        extra == fill % (c.in_size - 1)
        extra_both == extra \div 2
    IN  nhd_reps * c.nhd[1] + extra_both

\* CA._pad_output, the number of zeros put on the left / on the right
l_pad_len(c, fill) ==
    LET nhd_reps == fill \div (c.in_size - 1)
        extra == fill % (c.in_size - 1)
        extra_both == extra \div 2
        extra_l == extra % 2
    IN  nhd_reps * c.nhd[1] + extra_both + extra_l
r_pad_len(c, fill) ==
    LET nhd_reps == fill \div (c.in_size - 1)
        extra == fill % (c.in_size - 1)
        extra_both == extra \div 2
    IN  nhd_reps * c.nhd[2] + extra_both

\* CA._pad_output, the loop over the sequences: slot ix of seqs is rebound
\* to a new list l_pad + seqs[ix] + r_pad when it is shorter than max_len
RECURSIVE pad_loop(_, _, _, _, _, _)
pad_loop(c, h, seqs, seq_lens, max_len, ix) ==
    IF ix > Len(seqs) THEN [h |-> h, seqs |-> seqs]
    ELSE
      LET fill == max_len - seq_lens[ix] IN
      IF fill > 0
      THEN pad_loop(c,
                    Alloc(h, Zeros(l_pad_len(c, fill)) \o h[seqs[ix]] \o Zeros(r_pad_len(c, fill))),
                    [seqs EXCEPT ![ix] = Len(h) + 1],
                    seq_lens, max_len, ix + 1)
      ELSE pad_loop(c, h, seqs, seq_lens, max_len, ix + 1)

\* CA._pad_output on a non-empty list of list references
pad_output(c, h, seqs) ==
    IF \E ix \in 1..Len(seqs) : ~states_in_bounds(c.n_states, h[seqs[ix]])
    THEN [status |-> StateOutOfRange, h |-> h, seqs |-> seqs]
    ELSE IF c.in_size > 1
    THEN LET seq_lens == [ix \in 1..Len(seqs) |-> Len(h[seqs[ix]])]
             max_len == MaxOf(seq_lens)
             min_len == MinOf(seq_lens)
         IN  IF max_len > min_len
             THEN LET r == pad_loop(c, h, seqs, seq_lens, max_len, 1)
                  IN  [status |-> Ok, h |-> r.h, seqs |-> r.seqs]
             ELSE [status |-> Ok, h |-> h, seqs |-> seqs]
    ELSE [status |-> Ok, h |-> h, seqs |-> seqs]

\* the rule applied to the initial sequence at every step
most_recent_first(out) == out[1]

\* CA.__call__, out[-1]: the most recent state sequence
most_recent(out) == out[Len(out)]

RECURSIVE evolve_loop(_, _, _, _, _, _)

\* CA.__call__, the body of the loop after states_next = r has been computed:
\* a raise leaves the call, a non-empty result is appended, an empty one breaks
loop_body(c, out, k, pre_pad, ixs, r) ==
    IF r.status # Ok
    THEN [status |-> r.status, h |-> r.h, out |-> out, broke |-> FALSE, ixs |-> ixs \cup r.ixs]
    ELSE IF Len(r.h[r.ref]) > 0
    THEN evolve_loop(c, r.h, Append(out, r.ref), k - 1, pre_pad, ixs \cup r.ixs)
    ELSE [status |-> Ok, h |-> r.h, out |-> out, broke |-> TRUE, ixs |-> ixs \cup r.ixs]

\* CA.__call__, the loop "for _ in range(steps)" with k iterations left:
\* out is the list of references built so far, broke records the break
evolve_loop(c, h, out, k, pre_pad, ixs) ==
    IF k <= 0 THEN [status |-> Ok, h |-> h, out |-> out, broke |-> FALSE, ixs |-> ixs]
    ELSE loop_body(c, out, k, pre_pad, ixs, apply_rule(c, h, most_recent(out), pre_pad))

\* CA.__call__, "out = [deepcopy(seq)]" (d) followed by the loop
copy_and_loop(c, d, steps, pre_pad) == evolve_loop(c, d.h, <<d.ref>>, steps, pre_pad, {})

\* CA.__call__, "out = self._pad_output(out)" (p) and the return, l being
\* the outcome of the loop
return_padded(l, p) ==
    [status |-> p.status, h |-> p.h,
     out |-> IF p.status = Ok THEN p.seqs ELSE <<>>,
     raw |-> Deref(l.h, l.out), broke |-> l.broke, ixs |-> l.ixs]

\* CA.__call__ after the loop, l being its outcome
after_loop(c, post_pad, l) ==
    IF l.status # Ok
    THEN [status |-> l.status, h |-> l.h, out |-> <<>>, raw |-> Deref(l.h, l.out),
          broke |-> l.broke, ixs |-> l.ixs]
    ELSE IF post_pad
    THEN return_padded(l, pad_output(c, l.h, l.out))
    ELSE [status |-> Ok, h |-> l.h, out |-> l.out, raw |-> Deref(l.h, l.out),
          broke |-> l.broke, ixs |-> l.ixs]

\* CA.__call__: status, heap after the call, the returned list of references
\* (none when it raises), the contents of out before padding, whether the
\* loop was left by break, the rule subscripts computed
ca_call(c, h, seq, steps, pre_pad, post_pad) ==
    IF steps < 1
    THEN [status |-> InvalidStepCount, h |-> h, out |-> <<>>, raw |-> <<>>,
          broke |-> FALSE, ixs |-> {}]
    ELSE after_loop(c, post_pad, copy_and_loop(c, deepcopy(h, seq), steps, pre_pad))

\* ------------------------------------------------------ the caller's inputs
\* Wolfram numbers tried besides the ends of the valid range
RuleSamples == {0, 1, 30, 90, 110}

\* the configuration is valid and its largest Wolfram number is within MaxRuleNum
Buildable(nhd, n_states) ==
    /\ nhd[1] >= 0 /\ nhd[2] >= 0 /\ n_states >= 2
    /\ LET t == SatPow(n_states, nhd[1] + nhd[2] + 1, MaxRuleNum, 1)
       IN  t <= MaxRuleNum /\ SatPow(n_states, t, MaxRuleNum + 1, 1) <= MaxRuleNum + 1

\* the configuration is rejected before the rule is looked at
Rejected(nhd, n_states) == nhd[1] < 0 \/ nhd[2] < 0 \/ n_states < 2

\* rule lists tried for a configuration: of the right length and one off,
\* in range, with a too large last entry, with a negative first entry
RuleLists(n_states, rule_len) ==
    UNION {{[i \in 1..len |-> (i - 1) % n_states],
            [i \in 1..len |-> IF i = len THEN n_states ELSE 1],
            [i \in 1..len |-> IF i = 1 THEN -1 ELSE 0]}
           : len \in {rule_len - 1, rule_len, rule_len + 1}}

\* rule arguments tried for a configuration
Rules(nhd, n_states) ==
    IF Rejected(nhd, n_states) THEN {IntRule(0), ListRule(<<0, 1>>)}
    ELSE LET rule_len == Pow(n_states, nhd[1] + nhd[2] + 1)
             max_rule_num == Pow(n_states, rule_len) - 1
         IN  {IntRule(k) : k \in RuleSamples \cup {-1, max_rule_num, max_rule_num + 1}}
             \cup {ListRule(t) : t \in RuleLists(n_states, rule_len)}

\* initial sequences: every sequence of at most MaxLen values, the values
\* one below and one above the range included
Seqs(n_states) == UNION {[1..k -> (-1)..n_states] : k \in 0..MaxLen}

\* sequences of a history handed to the padding routine
PadSeqs(n_states) ==
    {[i \in 1..k |-> i % n_states] : k \in 0..MaxPadLen} \cup {<<1, n_states>>, <<-1>>}
MaxHist == 2
Histories(n_states) == UNION {[1..k -> PadSeqs(n_states)] : k \in 1..MaxHist}

\* ------------------------------------------------------------------ state
VARIABLES
    pc,         \* "new": no engine yet; "ready"; "failed": the constructor raised;
                \* "called": a method has returned or raised
    args,       \* the arguments the constructor was called with
    err,        \* Ok or the error the constructor raised
    ca,         \* the attributes of the CA object
    call,       \* the method called last and its arguments
    res,        \* what that call returned or raised
    callerSeq,  \* the contents, after the call, of the list the caller passed as seq
    agree       \* whether a repetition of the call gave the same result

vars == <<pc, args, err, ca, call, res, callerSeq, agree>>

NoArgs == [rule |-> IntRule(0), nhd |-> <<0, 0>>, n_states |-> 0]
NoCall == [op |-> "none", seq |-> <<>>, steps |-> 0, pre_pad |-> FALSE,
           post_pad |-> FALSE, seqs |-> <<>>]
NoRes == [status |-> "none", hist |-> <<>>, raw |-> <<>>, next |-> <<>>,
          broke |-> FALSE, ixs |-> {}]

Init ==
    /\ pc = "new" /\ args = NoArgs /\ err = Ok /\ ca = NoCA
    /\ call = NoCall /\ res = NoRes /\ callerSeq = <<>> /\ agree = "none"

\* what the caller sees of the outcome r of a call of ca(...): the result
\* with the references followed, and the contents of the list passed (list 1)
SeenOfCall(r) ==
    [res |-> [status |-> r.status, hist |-> Deref(r.h, r.out), raw |-> r.raw,
              next |-> <<>>, broke |-> r.broke, ixs |-> r.ixs],
     seq |-> r.h[1]]

\* the same for the outcome r of a call of ca._apply_rule(...)
SeenOfStep(r) ==
    [res |-> [status |-> r.status, hist |-> <<>>, raw |-> <<>>,
              next |-> IF r.status = Ok THEN r.h[r.ref] ELSE <<>>,
              broke |-> FALSE, ixs |-> r.ixs],
     seq |-> r.h[1]]

\* what the caller sees of ca(seq, steps, pre_pad, post_pad), seq being list 1 of heap h
EvolveResult(c, h, steps, pre_pad, post_pad) ==
    SeenOfCall(ca_call(c, h, 1, steps, pre_pad, post_pad))

\* what the caller sees of ca._apply_rule(seq, pre_pad), seq being list 1 of heap h
StepResult(c, h, pre_pad) == SeenOfStep(apply_rule(c, h, 1, pre_pad))

\* CA(rule, nhd, n_states)
Construct ==
    /\ pc = "new"
    /\ \E l \in (-1)..MaxRadius, r \in (-1)..MaxRadius, n \in 1..MaxStates :
         /\ Rejected(<<l, r>>, n) \/ Buildable(<<l, r>>, n)
         /\ \E rule \in Rules(<<l, r>>, n) :
              LET o == new(rule, <<l, r>>, n) IN
              /\ args' = [rule |-> rule, nhd |-> <<l, r>>, n_states |-> n]
              /\ err' = o.err
              /\ ca' = o.ca
              /\ pc' = IF o.err = Ok THEN "ready" ELSE "failed"
    /\ UNCHANGED <<call, res, callerSeq, agree>>

\* ca(seq, steps, pre_pad, post_pad)
Evolve ==
    /\ pc = "ready"
    /\ \E seq \in Seqs(ca.n_states), steps \in 0..MaxSteps,
          pre_pad \in BOOLEAN, post_pad \in BOOLEAN :
         LET r == EvolveResult(ca, <<seq>>, steps, pre_pad, post_pad) IN
         /\ call' = [op |-> "evolve", seq |-> seq, steps |-> steps, pre_pad |-> pre_pad,
                     post_pad |-> post_pad, seqs |-> <<>>]
         /\ res' = r.res
         /\ callerSeq' = r.seq
    /\ pc' = "called" /\ agree' = "none"
    /\ UNCHANGED <<args, err, ca>>

\* ca._apply_rule(seq, pre_pad)
ApplyStep ==
    /\ pc = "ready"
    /\ \E seq \in Seqs(ca.n_states), pre_pad \in BOOLEAN :
         LET r == StepResult(ca, <<seq>>, pre_pad) IN
         /\ call' = [op |-> "apply_step", seq |-> seq, steps |-> 0, pre_pad |-> pre_pad,
                     post_pad |-> FALSE, seqs |-> <<>>]
         /\ res' = r.res
         /\ callerSeq' = r.seq
    /\ pc' = "called" /\ agree' = "none"
    /\ UNCHANGED <<args, err, ca>>

\* ca._pad_output(seqs)
PadOutput ==
    /\ pc = "ready"
    /\ \E seqs \in Histories(ca.n_states) :
         LET r == pad_output(ca, seqs, [i \in 1..Len(seqs) |-> i]) IN
         /\ call' = [NoCall EXCEPT !.op = "pad_output", !.seqs = seqs]
         /\ res' = [NoRes EXCEPT !.status = r.status,
                                 !.hist = IF r.status = Ok THEN Deref(r.h, r.seqs) ELSE <<>>]
    /\ pc' = "called" /\ agree' = "none"
    /\ UNCHANGED <<args, err, ca, callerSeq>>

\* the caller repeats the call with the same arguments, passing the same list
Again ==
    /\ pc = "called" /\ call.op \in {"evolve", "apply_step"}
    /\ LET r == IF call.op = "evolve"
                THEN EvolveResult(ca, <<callerSeq>>, call.steps, call.pre_pad, call.post_pad)
                ELSE StepResult(ca, <<callerSeq>>, call.pre_pad)
       IN  agree' = IF r.res = res THEN "same" ELSE "differ"
    /\ pc' = "ready" /\ call' = NoCall /\ res' = NoRes /\ callerSeq' = <<>>
    /\ UNCHANGED <<args, err, ca>>

\* the caller drops the result
Return ==
    /\ pc = "called"
    /\ pc' = "ready" /\ call' = NoCall /\ res' = NoRes /\ callerSeq' = <<>>
    /\ agree' = "none"
    /\ UNCHANGED <<args, err, ca>>

Next == Construct \/ Evolve \/ ApplyStep \/ PadOutput \/ Again \/ Return

Spec == Init /\ [][Next]_vars

\* ------------------------------------------------------------- properties
Evolved == pc = "called" /\ call.op = "evolve"
Stepped == pc = "called" /\ call.op = "apply_step"
Padded == pc = "called" /\ call.op = "pad_output"
window_size == ca.in_size
Lens(hist) == [i \in 1..Len(hist) |-> Len(hist[i])]

\* C1: with pad_input set, evolve on an in-range sequence with steps >= 1
\* returns a history whose elements all have the length of the initial
\* sequence, and apply_step returns a sequence of the length of its input.
C1_ConstantWidth ==
    /\ (Evolved /\ call.pre_pad /\ call.steps >= 1 /\ InRange(call.seq, ca.n_states))
         => /\ res.status = Ok
            /\ \A i \in 1..Len(res.hist) : Len(res.hist[i]) = Len(call.seq)
    /\ (Stepped /\ call.pre_pad /\ InRange(call.seq, ca.n_states))
         => res.status = Ok /\ Len(res.next) = Len(call.seq)

C1_Witness ==
    /\ Evolved /\ call.pre_pad /\ call.steps = 2 /\ res.status = Ok
    /\ window_size = 3 /\ ca.nhd = <<0, 2>>
    /\ Lens(res.hist) = <<3, 3, 3>>
    /\ res.hist[3] # Zeros(3)

\* C2: with pad_input clear and window_size > 1, in the history evolve builds
\* (before any uniform padding) every element is exactly window_size - 1
\* shorter than its predecessor, whether or not evolution goes on to fail.
C2_Shrinking ==
    (Evolved /\ ~call.pre_pad /\ window_size > 1)
      => \A i \in 1..(Len(res.raw) - 1) :
           Len(res.raw[i + 1]) = Len(res.raw[i]) - (window_size - 1)

C2_Witness ==
    /\ Evolved /\ ~call.pre_pad /\ call.post_pad /\ window_size = 2
    /\ res.status = Ok /\ Lens(res.raw) = <<3, 2, 1>>

\* C3: with pad_input clear, evolve on an in-range sequence succeeds exactly
\* when len(seq) - steps * (window_size - 1) >= 1, the history then has
\* steps + 1 elements; otherwise it fails with SequenceTooShort and returns
\* no history; whenever an iteration meets a sequence shorter than
\* window_size the call fails with SequenceTooShort.
C3_HardFailure ==
    /\ (Evolved /\ ~call.pre_pad /\ call.steps >= 1 /\ InRange(call.seq, ca.n_states))
         => /\ (res.status = Ok)
                  <=> (Len(call.seq) - call.steps * (window_size - 1) >= 1)
            /\ res.status = Ok => Len(res.hist) = call.steps + 1
            /\ res.status # Ok => res.status = SequenceTooShort /\ res.hist = <<>>
    /\ (Evolved /\ ~call.pre_pad /\ call.steps >= 1
          /\ Len(res.raw) <= call.steps /\ Len(res.raw[Len(res.raw)]) < window_size)
         => res.status = SequenceTooShort /\ res.hist = <<>>

C3_Witness ==
    /\ Evolved /\ ~call.pre_pad /\ call.steps = 2 /\ Len(call.seq) = 3
    /\ window_size = 3 /\ Len(res.raw) = 2
    /\ res.status = SequenceTooShort /\ res.hist = <<>>

\* the sequence one apply_step returns for seq
StepOf(seq, pre_pad) == StepResult(ca, <<seq>>, pre_pad).res.next

\* C4 as stated: whenever evolve returns, the history has between 2 and
\* steps + 1 elements, its first element is the input sequence and every
\* later element is one apply_step of the element before it.
C4_Original ==
    (Evolved /\ res.status = Ok)
      => /\ 2 <= Len(res.hist) /\ Len(res.hist) <= call.steps + 1
         /\ res.hist[1] = call.seq
         /\ \A i \in 1..(Len(res.hist) - 1) :
              res.hist[i + 1] = StepOf(res.hist[i], call.pre_pad)

\* C4 amended: whenever evolve returns, the history has between 1 and
\* steps + 1 elements: steps + 1 for a non-empty input, and 1 for the empty
\* input (which returns only with pad_input set); its first element is the
\* input sequence; in the history before uniform padding every later element
\* is one apply_step of the element before it, and without pad_output that
\* history is what is returned.
C4_History ==
    (Evolved /\ res.status = Ok)
      => /\ 1 <= Len(res.hist) /\ Len(res.hist) <= call.steps + 1
         /\ Len(call.seq) > 0 => Len(res.hist) = call.steps + 1
         /\ Len(call.seq) = 0 => Len(res.hist) = 1 /\ call.pre_pad
         /\ res.hist[1] = call.seq
         /\ Len(res.raw) = Len(res.hist)
         /\ res.raw[1] = call.seq
         /\ \A i \in 1..(Len(res.raw) - 1) :
              res.raw[i + 1] = StepOf(res.raw[i], call.pre_pad)
         /\ ~call.post_pad => res.hist = res.raw

C4_Witness ==
    /\ Evolved /\ res.status = Ok /\ call.seq = <<>> /\ call.steps = 2
    /\ res.hist = << <<>> >>

\* the uniform padding of history in into history out, for window_size > 1
UniformlyPadded(in, out) ==
    LET max_len == MaxOf(Lens(in)) IN
    /\ Len(out) = Len(in)
    /\ \A i \in 1..Len(in) :
         LET fill == max_len - Len(in[i])
             reps == fill \div (window_size - 1)
             extra == fill % (window_size - 1)
             extra_both == extra \div 2
             extra_left == extra % 2
             left == reps * ca.nhd[1] + extra_both + extra_left
             right == reps * ca.nhd[2] + extra_both
         IN  /\ Len(out[i]) = max_len
             /\ left + right = fill
             /\ out[i] = Zeros(left) \o in[i] \o Zeros(right)
             /\ fill = 0 => out[i] = in[i]

\* C5: the uniform padding of a history of in-range sequences returns as many
\* sequences, all of the maximum length, each its original content between
\* reps*left_radius + extra_both + extra_left zeros and reps*right_radius +
\* extra_both zeros (the two counts adding up to fill), full-length sequences
\* unchanged; with window_size = 1 the history is returned unchanged.  This
\* holds of the padding routine called on its own and of evolve's pad_output.
C5_UniformPadding ==
    /\ (Padded /\ \A i \in 1..Len(call.seqs) : InRange(call.seqs[i], ca.n_states))
         => /\ res.status = Ok
            /\ window_size > 1 => UniformlyPadded(call.seqs, res.hist)
            /\ window_size = 1 => res.hist = call.seqs
    /\ (Evolved /\ res.status = Ok /\ call.post_pad)
         => /\ window_size > 1 => UniformlyPadded(res.raw, res.hist)
            /\ window_size = 1 => res.hist = res.raw

C5_Witness ==
    /\ Padded /\ res.status = Ok /\ ca.nhd = <<1, 2>>
    /\ call.seqs = << <<1, 0, 1, 0, 1, 0>>, <<1>> >>
    /\ res.hist = << <<1, 0, 1, 0, 1, 0>>, <<0, 0, 1, 0, 0, 0>> >>

Constructed == pc \in {"ready", "failed"}
table_length == Pow(args.n_states, args.nhd[1] + args.nhd[2] + 1)
ValidConfiguration == args.nhd[1] >= 0 /\ args.nhd[2] >= 0 /\ args.n_states >= 2

\* C6: for a valid configuration every rule number k in 0..n^table_length - 1
\* is accepted and decoded into a rule table of table_length entries, each in
\* [0, n), entry i (from 0) being the base-n digit of k of weight n^i, so
\* that the weighted sum of the entries is k, and k = 0 gives all zeros.
C6_WolframDecoding ==
    (Constructed /\ ValidConfiguration /\ args.rule.kind = "int"
       /\ 0 <= args.rule.num /\ args.rule.num <= Pow(args.n_states, table_length) - 1)
      => /\ err = Ok
         /\ Len(ca.rule) = table_length
         /\ InRange(ca.rule, args.n_states)
         /\ \A i \in 0..(table_length - 1) :
              ca.rule[i + 1] = (args.rule.num \div Pow(args.n_states, i)) % args.n_states
         /\ Sum([j \in 1..Len(ca.rule) |-> ca.rule[j] * Pow(args.n_states, j - 1)])
              = args.rule.num
         /\ args.rule.num = 0 => ca.rule = Zeros(table_length)

C6_Witness ==
    /\ pc = "ready" /\ args.rule = IntRule(110) /\ args.nhd = <<1, 1>>
    /\ args.n_states = 2 /\ ca.rule = <<0, 1, 1, 1, 0, 1, 1, 0>>

\* the outcome the construction contract prescribes for the arguments
ExpectedOutcome ==
    IF args.nhd[1] < 0 \/ args.nhd[2] < 0 \/ args.n_states < 2 THEN InvalidConfiguration
    ELSE IF args.rule.kind = "int"
    THEN IF args.rule.num < 0 \/ args.rule.num > Pow(args.n_states, table_length) - 1
         THEN RuleNumberOutOfRange ELSE Ok
    ELSE IF Len(args.rule.tab) # table_length THEN RuleTableLengthMismatch
    ELSE IF \E i \in 1..Len(args.rule.tab) :
              args.rule.tab[i] < 0 \/ args.rule.tab[i] >= args.n_states
    THEN StateOutOfRange ELSE Ok

\* C7: construction fails with InvalidConfiguration, RuleNumberOutOfRange,
\* RuleTableLengthMismatch or StateOutOfRange under the stated conditions,
\* tested in that order, and succeeds exactly when none holds, an explicit
\* table being stored as supplied.
C7_ConstructionValidation ==
    Constructed
      => /\ err = ExpectedOutcome
         /\ (pc = "ready") <=> (err = Ok)
         /\ err = Ok
              => /\ ca.nhd = args.nhd /\ ca.n_states = args.n_states
                 /\ ca.in_size = args.nhd[1] + args.nhd[2] + 1
                 /\ args.rule.kind = "list" => ca.rule = args.rule.tab

C7_Witness ==
    /\ pc = "failed" /\ err = RuleTableLengthMismatch
    /\ ~InRange(args.rule.tab, args.n_states)

\* C8: with pad_input clear, apply_step fails with SequenceTooShort on every
\* sequence shorter than window_size, in range or not; on every in-range
\* sequence of at least window_size values it returns a non-empty sequence
\* of len(seq) - window_size + 1 values; evolve never leaves its loop through
\* the empty-result branch.
C8_CheckAgreesWithSliding ==
    /\ (Stepped /\ ~call.pre_pad /\ Len(call.seq) < window_size)
         => res.status = SequenceTooShort
    /\ (Stepped /\ ~call.pre_pad /\ Len(call.seq) >= window_size
          /\ InRange(call.seq, ca.n_states))
         => /\ res.status = Ok
            /\ Len(res.next) = Len(call.seq) - window_size + 1
            /\ Len(res.next) > 0
    /\ (Stepped /\ ~call.pre_pad /\ res.status = Ok) => res.next # <<>>
    /\ (Evolved /\ ~call.pre_pad) => ~res.broke

C8_Witness ==
    /\ Stepped /\ ~call.pre_pad /\ Len(call.seq) = window_size - 1
    /\ Len(call.seq) = 2 /\ ~InRange(call.seq, ca.n_states)
    /\ res.status = SequenceTooShort

\* C9: evolve and apply_step, succeeding or failing, leave the list the
\* caller passed as it was and the configuration as construction made it,
\* and a repetition of a call with the same arguments gives the same result.
C9_Frame ==
    /\ (Evolved \/ Stepped) => callerSeq = call.seq
    /\ pc \in {"ready", "called"} => ca = new(args.rule, args.nhd, args.n_states).ca
    /\ agree # "differ"

C9_Witness ==
    /\ Evolved /\ ~call.pre_pad /\ call.post_pad /\ res.status = Ok
    /\ Lens(res.raw) = <<3, 1>> /\ Lens(res.hist) = <<3, 3>>
    /\ callerSeq = call.seq

\* every rule subscript computed lies within the rule table, and every value
\* returned lies in [0, n_states)
Closed ==
    /\ pc = "called"
         => /\ res.status # IndexError
            /\ \A ix \in res.ixs : 0 <= ix /\ ix < Pow(ca.n_states, window_size)
    /\ (pc = "called" /\ res.status = Ok)
         => /\ InRange(res.next, ca.n_states)
            /\ \A i \in 1..Len(res.hist) : InRange(res.hist[i], ca.n_states)

\* C10 as stated: the rule subscripts stay within the table, the values
\* returned stay in range, and an input with an out-of-range value makes the
\* step fail with StateOutOfRange.
C10_Original ==
    /\ Closed
    /\ ((Stepped \/ (Evolved /\ call.steps >= 1)) /\ ~InRange(call.seq, ca.n_states))
         => res.status = StateOutOfRange

\* C10 amended: the rule subscripts stay within the table, the values
\* returned stay in range, and an input with an out-of-range value makes the
\* step fail without output: with SequenceTooShort when pad_input is clear
\* and the input is shorter than window_size, with StateOutOfRange otherwise.
C10_Closure ==
    /\ Closed
    /\ ((Stepped \/ (Evolved /\ call.steps >= 1)) /\ ~InRange(call.seq, ca.n_states))
         => /\ res.hist = <<>> /\ res.next = <<>>
            /\ res.status = IF ~call.pre_pad /\ Len(call.seq) < window_size
                            THEN SequenceTooShort ELSE StateOutOfRange

C10_Witness ==
    /\ Evolved /\ call.pre_pad /\ call.post_pad /\ res.status = Ok
    /\ ca.n_states = 3 /\ window_size = 2
    /\ Pow(ca.n_states, window_size) - 1 \in res.ixs
    /\ \E i \in 1..Len(res.hist) : \E j \in 1..Len(res.hist[i]) : res.hist[i][j] = 2
====
